---- MODULE Spec2Model ----
(***************************************************************************)
(* Model of deploy.py: the straight-line deployment of the DataIntegrity   *)
(* contract to the Reltime network, wrapped in one try/except.             *)
(*                                                                         *)
(* The run is a program counter walking over the statements of the try     *)
(* block.  Every statement that can raise is one action; the node, the     *)
(* environment and the libraries answer nondeterministically.  Each action *)
(* is written as a function from the run's state (a record) and the        *)
(* answer to the next state, so that a second run fed the same answers     *)
(* can be executed next to the first one (specification PairSpec).         *)
(***************************************************************************)
EXTENDS Integers, Sequences, FiniteSets

VARIABLES pc, calls, printed, connected, private_key, account, balance,
          chain_id, block_number, bytecode, constructor, nonce, tx,
          signed_tx, tx_hash, elapsed, receipt, contract_address, code,
          err, exit_code, shadow

vars == <<pc, calls, printed, connected, private_key, account, balance,
          chain_id, block_number, bytecode, constructor, nonce, tx,
          signed_tx, tx_hash, elapsed, receipt, contract_address, code,
          err, exit_code, shadow>>

(* ------------------------------ bounds -------------------------------- *)
MaxBalance == 1
MaxNonce == 1
MaxBlock == 1
MaxCodeLen == 2
MaxGasPrice == 2

(* ------------------------- program constants -------------------------- *)
Timeout == 300
GasLimit == 10000000
GasPrice == 0
ReltimeChainId == 32323

(* ------------------------- values and answers ------------------------- *)
Unset == -1

NoTx == [from |-> <<>>, nonce |-> Unset, gas |-> Unset, gasPrice |-> Unset,
         data |-> [bytecode |-> <<>>, args |-> <<>>]]

NoSigned == [rawTransaction |-> [tx |-> NoTx, key |-> <<>>], hash |-> ""]

NoReceipt == [contractAddress |-> "", status |-> Unset, blockNumber |-> Unset]

NoConstructor == [bytecode |-> <<>>, args |-> <<>>]

\* An exception object: its class and its message.
Exc(type, msg) == [type |-> type, msg |-> msg]

NoExc == Exc("", "")

\* An answer of a call: the value it returns, or the exception it raises.
Returns(v) == [exc |-> NoExc, val |-> v]

Raises(e, dflt) == [exc |-> e, val |-> dflt]

TransportError == Exc("ConnectionError", "HTTPConnectionPool: connection refused")

BadResponse == Exc("BadResponseFormat", "malformed JSON-RPC response")

RpcErrors == {TransportError, BadResponse}

CannotConnect == Exc("Exception", "Cannot connect to Reltime RPC")

KeyNotSet == Exc("Exception", "DEPLOYER_PRIVATE_KEY not set in .env")

InvalidKey == Exc("ValueError", "The private key must be exactly 32 bytes long")

ArtifactMissing == Exc("FileNotFoundError", "No such file or directory: DataIntegrity.json")

ArtifactKeyError == Exc("KeyError", "'bytecode'")

EncodingError == Exc("TypeError", "One or more arguments could not be encoded to the necessary ABI type")

NonceTooLow == Exc("ValueError", "{'code': -32000, 'message': 'nonce too low'}")

GasLimitRejected == Exc("ValueError", "{'code': -32000, 'message': 'exceeds block gas limit'}")

SendErrors == {NonceTooLow, GasLimitRejected} \cup RpcErrors

TimeExhausted == Exc("TimeExhausted", "Transaction 0xTXHASH is not in the chain after 300 seconds")

TransactionNotFound == Exc("TransactionNotFound", "Transaction with hash 0xTXHASH not found")

TxHash == "0xTXHASH"

\* str(e)
Str(e) == e.msg

(* ------------------------------ the key ------------------------------- *)
\* os.getenv: None when the variable is not set, else its text.
EnvUnset == [present |-> FALSE, value |-> <<>>]

EnvText(t) == [present |-> TRUE, value |-> t]

ValidKeyBodies == {<<"a", "1">>, <<"0", "b">>}

KeyInputs == {EnvUnset, EnvText(<<>>), EnvText(<<"a", "1">>),
              EnvText(<<"0", "x", "a", "1">>), EnvText(<<"0", "x">>),
              EnvText(<<"0", "X", "a", "1">>), EnvText(<<"z", "z">>),
              EnvText(<<"0", "b">>), EnvText(<<"0", "x", "0", "b">>)}

\* private_key.startswith('0x')
StartsWith0x(k) == Len(k) >= 2 /\ k[1] = "0" /\ k[2] = "x"

\* The prefix added without looking at the key.
NormalizeAlwaysPrefixes(k) == <<"0", "x">> \o k

\* if not private_key.startswith('0x'): private_key = '0x' + private_key
Normalize(k) == IF StartsWith0x(k) THEN k ELSE <<"0", "x">> \o k

KeyBody(k) == IF StartsWith0x(k) THEN SubSeq(k, 3, Len(k)) ELSE k

ValidKey(k) == KeyBody(k) \in ValidKeyBodies

\* account.address
Address(k) == <<"addr">> \o KeyBody(k)

(* --------------------------- the run's state -------------------------- *)
\* print(...): the kind of line and the text or the number interpolated
\* into it.
Line(tag, text, num) == [tag |-> tag, text |-> text, num |-> num]

InitState ==
  [pc |-> "connect", calls |-> <<>>, printed |-> <<Line("banner", <<>>, Unset)>>,
   connected |-> FALSE, private_key |-> <<>>, account |-> <<>>,
   balance |-> Unset, chain_id |-> Unset, block_number |-> Unset,
   bytecode |-> <<>>, constructor |-> NoConstructor, nonce |-> Unset,
   tx |-> NoTx, signed_tx |-> NoSigned, tx_hash |-> "", elapsed |-> 0,
   receipt |-> NoReceipt, contract_address |-> "", code |-> <<>>,
   err |-> "", exit_code |-> Unset]

State ==
  [pc |-> pc, calls |-> calls, printed |-> printed, connected |-> connected,
   private_key |-> private_key, account |-> account, balance |-> balance,
   chain_id |-> chain_id, block_number |-> block_number,
   bytecode |-> bytecode, constructor |-> constructor, nonce |-> nonce,
   tx |-> tx, signed_tx |-> signed_tx, tx_hash |-> tx_hash,
   elapsed |-> elapsed, receipt |-> receipt,
   contract_address |-> contract_address, code |-> code, err |-> err,
   exit_code |-> exit_code]

Assign(s) ==
  /\ pc' = s.pc
  /\ calls' = s.calls
  /\ printed' = s.printed
  /\ connected' = s.connected
  /\ private_key' = s.private_key
  /\ account' = s.account
  /\ balance' = s.balance
  /\ chain_id' = s.chain_id
  /\ block_number' = s.block_number
  /\ bytecode' = s.bytecode
  /\ constructor' = s.constructor
  /\ nonce' = s.nonce
  /\ tx' = s.tx
  /\ signed_tx' = s.signed_tx
  /\ tx_hash' = s.tx_hash
  /\ elapsed' = s.elapsed
  /\ receipt' = s.receipt
  /\ contract_address' = s.contract_address
  /\ code' = s.code
  /\ err' = s.err
  /\ exit_code' = s.exit_code

\* The operation op was performed and ended with res ("ok" or the class of
\* the exception it raised).
Called(s, op, res) == [s EXCEPT !.calls = Append(@, [op |-> op, res |-> res])]

Echo(s, tag, text, num) == [s EXCEPT !.printed = Append(@, Line(tag, text, num))]

\* The handler that prints a fixed text instead of str(e).
ExceptGenericMessage(s, e) ==
  [s EXCEPT !.pc = "failed",
            !.err = "Deployment failed",
            !.printed = Append(@, Line("failed", <<"Deployment failed">>, Unset)),
            !.exit_code = 1]

\* except Exception as e: print the message, sys.exit(1)
Except(s, e) ==
  [s EXCEPT !.pc = "failed",
            !.err = Str(e),
            !.printed = Append(@, Line("failed", <<Str(e)>>, Unset)),
            !.exit_code = 1]

\* A call that raised: it is logged and the handler runs.
Fail(s, op, e) == Except(Called(s, op, e.type), e)

(* ------------------------------ the steps ----------------------------- *)
\* The connection check whose result is not looked at.
ConnectIgnoresResult(s, ok) ==
  [Called(s, "is_connected", IF ok THEN "ok" ELSE "false") EXCEPT
     !.pc = "getenv_key", !.connected = ok]

\* lines 21-25: w3.is_connected()
ConnectStep(s, ok) ==
  IF ok
  THEN [Called(s, "is_connected", "ok") EXCEPT !.pc = "getenv_key",
                                               !.connected = TRUE]
  ELSE Except(Called(s, "is_connected", "false"), CannotConnect)

\* The key check that only looks for None (an empty text passes).
LoadKeyChecksNoneOnly(s, env) ==
  IF ~env.present
  THEN Fail(s, "getenv_key", KeyNotSet)
  ELSE [Called(s, "getenv_key", "ok") EXCEPT !.pc = "from_key",
                                             !.private_key = Normalize(env.value)]

\* lines 28-34: read the key, reject a missing one, add the prefix
LoadKeyStep(s, env) ==
  IF ~env.present \/ env.value = <<>>
  THEN Fail(s, "getenv_key", KeyNotSet)
  ELSE [Called(s, "getenv_key", "ok") EXCEPT !.pc = "from_key",
                                             !.private_key = Normalize(env.value)]

\* lines 36-37: w3.eth.account.from_key(private_key)
FromKeyStep(s) ==
  IF ValidKey(s.private_key)
  THEN LET a == Address(s.private_key)
       IN  Echo([Called(s, "from_key", "ok") EXCEPT !.pc = "get_balance",
                                                    !.account = a],
                "address", a, Unset)
  ELSE Fail(s, "from_key", InvalidKey)

\* The balance query whose failure is swallowed (it is only a diagnostic).
GetBalanceSwallowsError(s, r) ==
  IF r.exc = NoExc
  THEN Echo([Called(s, "get_balance", "ok") EXCEPT !.pc = "chain_id",
                                                   !.balance = r.val],
            "balance", <<>>, r.val)
  ELSE [Called(s, "get_balance", r.exc.type) EXCEPT !.pc = "chain_id"]

\* The balance query followed by a check that refuses an empty account.
GetBalanceRejectsZero(s, r) ==
  IF r.exc = NoExc
  THEN IF r.val = 0
       THEN Except([Called(s, "get_balance", "ok") EXCEPT !.balance = r.val],
                   Exc("Exception", "Deployer has no funds"))
       ELSE Echo([Called(s, "get_balance", "ok") EXCEPT !.pc = "chain_id",
                                                        !.balance = r.val],
                 "balance", <<>>, r.val)
  ELSE Fail(s, "get_balance", r.exc)

\* lines 40-41: w3.eth.get_balance(account.address)
GetBalanceStep(s, r) ==
  IF r.exc = NoExc
  THEN Echo([Called(s, "get_balance", "ok") EXCEPT !.pc = "chain_id",
                                                   !.balance = r.val],
            "balance", <<>>, r.val)
  ELSE Fail(s, "get_balance", r.exc)

\* The chain id query whose failure is swallowed (it is only a diagnostic).
ChainIdSwallowsError(s, r) ==
  IF r.exc = NoExc
  THEN Echo([Called(s, "chain_id", "ok") EXCEPT !.pc = "block_number",
                                                !.chain_id = r.val],
            "chain_id", <<>>, r.val)
  ELSE [Called(s, "chain_id", r.exc.type) EXCEPT !.pc = "block_number"]

\* lines 44-45: w3.eth.chain_id
ChainIdStep(s, r) ==
  IF r.exc = NoExc
  THEN Echo([Called(s, "chain_id", "ok") EXCEPT !.pc = "block_number",
                                                !.chain_id = r.val],
            "chain_id", <<>>, r.val)
  ELSE Fail(s, "chain_id", r.exc)

\* lines 47-48: w3.eth.block_number
BlockNumberStep(s, r) ==
  IF r.exc = NoExc
  THEN Echo([Called(s, "block_number", "ok") EXCEPT !.pc = "load_artifact",
                                                    !.block_number = r.val],
            "block", <<>>, r.val)
  ELSE Fail(s, "block_number", r.exc)

\* lines 51-61: read the artifact, create the contract factory
LoadArtifactStep(s, r) ==
  IF r.exc = NoExc
  THEN Echo([Called(s, "load_artifact", "ok") EXCEPT !.pc = "constructor",
                                                     !.bytecode = r.val],
            "deploying", <<>>, Unset)
  ELSE Fail(s, "load_artifact", r.exc)

\* line 64: Contract.constructor(account.address)
ConstructorStep(s, r) ==
  IF r.exc = NoExc
  THEN [Called(s, "constructor", "ok") EXCEPT
          !.pc = "get_transaction_count",
          !.constructor = [bytecode |-> s.bytecode, args |-> <<s.account>>]]
  ELSE Fail(s, "constructor", r.exc)

\* line 67: w3.eth.get_transaction_count(account.address), evaluated as an
\* argument of build_transaction
NonceStep(s, r) ==
  IF r.exc = NoExc
  THEN [Called(s, "get_transaction_count", "ok") EXCEPT
          !.pc = "build_transaction", !.nonce = r.val]
  ELSE Fail(s, "get_transaction_count", r.exc)

\* The build whose exception is logged but not propagated.
BuildIgnoresError(s, r) ==
  [Called(s, "build_transaction", IF r.exc = NoExc THEN "ok" ELSE r.exc.type)
     EXCEPT !.pc = "sign_transaction",
            !.tx = [from |-> s.account, nonce |-> s.nonce, gas |-> GasLimit,
                    gasPrice |-> GasPrice, data |-> s.constructor]]

\* The build that takes the nonce from a default instead of the query.
BuildStaleNonce(s, r, gasPrice) ==
  IF r.exc = NoExc
  THEN [Called(s, "build_transaction", "ok") EXCEPT
          !.pc = "sign_transaction",
          !.tx = [from |-> s.account, nonce |-> 0, gas |-> GasLimit,
                  gasPrice |-> gasPrice, data |-> s.constructor]]
  ELSE Fail(s, "build_transaction", r.exc)

\* The build that refuses a gas price of zero.
BuildRejectsZeroPrice(s, r, gasPrice) ==
  IF r.exc # NoExc
  THEN Fail(s, "build_transaction", r.exc)
  ELSE IF gasPrice = 0
  THEN Fail(s, "build_transaction", Exc("ValueError", "gasPrice must be positive"))
  ELSE [Called(s, "build_transaction", "ok") EXCEPT
          !.pc = "sign_transaction",
          !.tx = [from |-> s.account, nonce |-> s.nonce, gas |-> GasLimit,
                  gasPrice |-> gasPrice, data |-> s.constructor]]

\* lines 65-70: constructor.build_transaction({...}) with the dict of the
\* script, the 'gasPrice' entry being gasPrice
BuildStepWith(s, r, gasPrice) ==
  IF r.exc = NoExc
  THEN [Called(s, "build_transaction", "ok") EXCEPT
          !.pc = "sign_transaction",
          !.tx = [from |-> s.account, nonce |-> s.nonce, gas |-> GasLimit,
                  gasPrice |-> gasPrice, data |-> s.constructor]]
  ELSE Fail(s, "build_transaction", r.exc)

\* lines 65-70 as written: 'gasPrice': 0
BuildStep(s, r) == BuildStepWith(s, r, GasPrice)

\* line 73: w3.eth.account.sign_transaction(tx, private_key)
SignStep(s) ==
  [Called(s, "sign_transaction", "ok") EXCEPT
     !.pc = "send_raw_transaction",
     !.signed_tx = [rawTransaction |-> [tx |-> s.tx, key |-> s.private_key],
                    hash |-> TxHash]]

\* The send that goes straight to the code read-back.
SendSkipsWait(s, r) ==
  IF r.exc = NoExc
  THEN Echo([Called(s, "send_raw_transaction", "ok") EXCEPT
               !.pc = "get_code", !.tx_hash = r.val],
            "tx_hash", <<r.val>>, Unset)
  ELSE Fail(s, "send_raw_transaction", r.exc)

\* The send whose rejection is logged but not propagated.
SendIgnoresRejection(s, r) ==
  Echo(Echo([Called(s, "send_raw_transaction",
                    IF r.exc = NoExc THEN "ok" ELSE r.exc.type) EXCEPT
               !.pc = "wait_for_transaction_receipt",
               !.tx_hash = s.signed_tx.hash],
            "tx_hash", <<s.signed_tx.hash>>, Unset),
       "waiting", <<>>, Unset)

\* lines 74-77: w3.eth.send_raw_transaction(signed_tx.rawTransaction)
SendStep(s, r) ==
  IF r.exc = NoExc
  THEN Echo(Echo([Called(s, "send_raw_transaction", "ok") EXCEPT
                    !.pc = "wait_for_transaction_receipt",
                    !.tx_hash = r.val],
                 "tx_hash", <<r.val>>, Unset),
            "waiting", <<>>, Unset)
  ELSE Fail(s, "send_raw_transaction", r.exc)

\* The deadline answered by sending the transaction again.
WaitTimeoutResend(s) ==
  [Called(s, "wait_for_transaction_receipt", TimeExhausted.type) EXCEPT
     !.pc = "send_raw_transaction", !.elapsed = 0]

\* The deadline answered by waiting again.
WaitTimeoutRestart(s) == [s EXCEPT !.elapsed = 0]

\* line 80: the deadline of wait_for_transaction_receipt(tx_hash, timeout=300)
WaitTimeoutStep(s) == Fail(s, "wait_for_transaction_receipt", TimeExhausted)

\* The poll that announces the transaction hash instead of the address.
WaitPollWrongAddress(s, r) ==
  IF r.exc = NoExc
  THEN Echo(Echo([Called(s, "wait_for_transaction_receipt", "ok") EXCEPT
                    !.pc = "get_code",
                    !.receipt = r.val,
                    !.contract_address = s.tx_hash],
                 "deployed_to", <<s.tx_hash>>, Unset),
            "update_env", <<s.tx_hash>>, Unset)
  ELSE IF r.exc = TransactionNotFound
  THEN [s EXCEPT !.elapsed = @ + 1]
  ELSE Fail(s, "wait_for_transaction_receipt", r.exc)

\* The poll that refuses a receipt whose status reports a failure.
WaitPollChecksStatus(s, r) ==
  IF r.exc = NoExc
  THEN IF r.val.status = 0
       THEN Fail(s, "wait_for_transaction_receipt",
                 Exc("Exception", "Transaction reverted"))
       ELSE Echo(Echo([Called(s, "wait_for_transaction_receipt", "ok") EXCEPT
                         !.pc = "get_code",
                         !.receipt = r.val,
                         !.contract_address = r.val.contractAddress],
                      "deployed_to", <<r.val.contractAddress>>, Unset),
                 "update_env", <<r.val.contractAddress>>, Unset)
  ELSE IF r.exc = TransactionNotFound
  THEN [s EXCEPT !.elapsed = @ + 1]
  ELSE Fail(s, "wait_for_transaction_receipt", r.exc)

\* lines 80-87: one poll of wait_for_transaction_receipt; with a receipt the
\* address is read from it and announced
WaitPollStep(s, r) ==
  IF r.exc = NoExc
  THEN Echo(Echo([Called(s, "wait_for_transaction_receipt", "ok") EXCEPT
                    !.pc = "get_code",
                    !.receipt = r.val,
                    !.contract_address = r.val.contractAddress],
                 "deployed_to", <<r.val.contractAddress>>, Unset),
            "update_env", <<r.val.contractAddress>>, Unset)
  ELSE IF r.exc = TransactionNotFound
  THEN [s EXCEPT !.elapsed = @ + 1]
  ELSE Fail(s, "wait_for_transaction_receipt", r.exc)

WaitStep(s, r) ==
  IF s.elapsed >= Timeout THEN WaitTimeoutStep(s) ELSE WaitPollStep(s, r)

\* lines 90-93: w3.eth.get_code(contract_address), then the two final lines
\* and the normal end of the script
GetCodeStep(s, r) ==
  IF r.exc = NoExc
  THEN Echo(Echo([Called(s, "get_code", "ok") EXCEPT !.pc = "done",
                                                     !.code = r.val,
                                                     !.exit_code = 0],
                 "verified", <<>>, Len(r.val)),
            "complete", <<>>, Unset)
  ELSE Fail(s, "get_code", r.exc)

(* ----------------------------- the answers ---------------------------- *)
IntAnswers(max) == {Returns(n) : n \in 0..max} \cup {Raises(e, Unset) : e \in RpcErrors}

ChainIds == {ReltimeChainId, 1}

Bytecodes == {<<96, 128>>}

Receipts == [contractAddress : {"0xABC"}, status : {0, 1}, blockNumber : 1..MaxBlock]

Codes == UNION {[1..n -> {96}] : n \in 0..MaxCodeLen}

NoAnswer == Returns(TRUE)

Answers(p) ==
  CASE p = "connect" -> BOOLEAN
    [] p = "getenv_key" -> KeyInputs
    [] p = "get_balance" -> IntAnswers(MaxBalance)
    [] p = "chain_id" ->
         {Returns(c) : c \in ChainIds} \cup {Raises(e, Unset) : e \in RpcErrors}
    [] p = "block_number" -> IntAnswers(MaxBlock)
    [] p = "load_artifact" ->
         {Returns(b) : b \in Bytecodes}
           \cup {Raises(e, <<>>) : e \in {ArtifactMissing, ArtifactKeyError}}
    [] p = "constructor" -> {NoAnswer, Raises(EncodingError, FALSE)}
    [] p = "get_transaction_count" -> IntAnswers(MaxNonce)
    [] p = "build_transaction" ->
         {NoAnswer} \cup {Raises(e, FALSE) : e \in {EncodingError} \cup RpcErrors}
    [] p = "send_raw_transaction" ->
         {Returns(TxHash)} \cup {Raises(e, "") : e \in SendErrors}
    [] p = "wait_for_transaction_receipt" ->
         {Returns(r) : r \in Receipts}
           \cup {Raises(e, NoReceipt) : e \in {TransactionNotFound} \cup RpcErrors}
    [] p = "get_code" ->
         {Returns(c) : c \in Codes} \cup {Raises(e, <<>>) : e \in RpcErrors}
    [] OTHER -> {NoAnswer}

\* The statement at s.pc, executed with the answer a.
Step(s, a) ==
  CASE s.pc = "connect" -> ConnectStep(s, a)
    [] s.pc = "getenv_key" -> LoadKeyStep(s, a)
    [] s.pc = "from_key" -> FromKeyStep(s)
    [] s.pc = "get_balance" -> GetBalanceStep(s, a)
    [] s.pc = "chain_id" -> ChainIdStep(s, a)
    [] s.pc = "block_number" -> BlockNumberStep(s, a)
    [] s.pc = "load_artifact" -> LoadArtifactStep(s, a)
    [] s.pc = "constructor" -> ConstructorStep(s, a)
    [] s.pc = "get_transaction_count" -> NonceStep(s, a)
    [] s.pc = "build_transaction" -> BuildStep(s, a)
    [] s.pc = "sign_transaction" -> SignStep(s)
    [] s.pc = "send_raw_transaction" -> SendStep(s, a)
    [] s.pc = "wait_for_transaction_receipt" -> WaitStep(s, a)
    [] s.pc = "get_code" -> GetCodeStep(s, a)

(* ----------------------------- the actions ---------------------------- *)
Init ==
  /\ pc = InitState.pc
  /\ calls = InitState.calls
  /\ printed = InitState.printed
  /\ connected = InitState.connected
  /\ private_key = InitState.private_key
  /\ account = InitState.account
  /\ balance = InitState.balance
  /\ chain_id = InitState.chain_id
  /\ block_number = InitState.block_number
  /\ bytecode = InitState.bytecode
  /\ constructor = InitState.constructor
  /\ nonce = InitState.nonce
  /\ tx = InitState.tx
  /\ signed_tx = InitState.signed_tx
  /\ tx_hash = InitState.tx_hash
  /\ elapsed = InitState.elapsed
  /\ receipt = InitState.receipt
  /\ contract_address = InitState.contract_address
  /\ code = InitState.code
  /\ err = InitState.err
  /\ exit_code = InitState.exit_code
  /\ shadow = InitState

\* lines 21-25
Connect ==
  /\ pc = "connect"
  /\ \E a \in Answers("connect") : Assign(ConnectStep(State, a))
  /\ UNCHANGED shadow

\* lines 28-34
LoadKey ==
  /\ pc = "getenv_key"
  /\ \E a \in Answers("getenv_key") : Assign(LoadKeyStep(State, a))
  /\ UNCHANGED shadow

\* lines 36-37
FromKey ==
  /\ pc = "from_key"
  /\ \E a \in Answers("from_key") : Assign(FromKeyStep(State))
  /\ UNCHANGED shadow

\* lines 40-41
GetBalance ==
  /\ pc = "get_balance"
  /\ \E a \in Answers("get_balance") : Assign(GetBalanceStep(State, a))
  /\ UNCHANGED shadow

\* lines 44-45
ChainId ==
  /\ pc = "chain_id"
  /\ \E a \in Answers("chain_id") : Assign(ChainIdStep(State, a))
  /\ UNCHANGED shadow

\* lines 47-48
BlockNumber ==
  /\ pc = "block_number"
  /\ \E a \in Answers("block_number") : Assign(BlockNumberStep(State, a))
  /\ UNCHANGED shadow

\* lines 51-61
LoadArtifact ==
  /\ pc = "load_artifact"
  /\ \E a \in Answers("load_artifact") : Assign(LoadArtifactStep(State, a))
  /\ UNCHANGED shadow

\* line 64
Constructor ==
  /\ pc = "constructor"
  /\ \E a \in Answers("constructor") : Assign(ConstructorStep(State, a))
  /\ UNCHANGED shadow

\* line 67
GetTransactionCount ==
  /\ pc = "get_transaction_count"
  /\ \E a \in Answers("get_transaction_count") : Assign(NonceStep(State, a))
  /\ UNCHANGED shadow

\* lines 65-70
BuildTransaction ==
  /\ pc = "build_transaction"
  /\ \E a \in Answers("build_transaction") : Assign(BuildStep(State, a))
  /\ UNCHANGED shadow

\* line 73
SignTransaction ==
  /\ pc = "sign_transaction"
  /\ \E a \in Answers("sign_transaction") : Assign(SignStep(State))
  /\ UNCHANGED shadow

\* lines 74-77
SendRawTransaction ==
  /\ pc = "send_raw_transaction"
  /\ \E a \in Answers("send_raw_transaction") : Assign(SendStep(State, a))
  /\ UNCHANGED shadow

\* lines 90-93
GetCode ==
  /\ pc = "get_code"
  /\ \E a \in Answers("get_code") : Assign(GetCodeStep(State, a))
  /\ UNCHANGED shadow

\* line 80: a poll before the deadline
WaitPoll ==
  /\ pc = "wait_for_transaction_receipt"
  /\ elapsed < Timeout
  /\ \E a \in Answers("wait_for_transaction_receipt") : Assign(WaitPollStep(State, a))
  /\ UNCHANGED shadow

\* line 80: the deadline has passed
WaitTimeout ==
  /\ pc = "wait_for_transaction_receipt"
  /\ elapsed >= Timeout
  /\ Assign(WaitTimeoutStep(State))
  /\ UNCHANGED shadow

Next ==
  \/ Connect
  \/ LoadKey
  \/ FromKey
  \/ GetBalance
  \/ ChainId
  \/ BlockNumber
  \/ LoadArtifact
  \/ Constructor
  \/ GetTransactionCount
  \/ BuildTransaction
  \/ SignTransaction
  \/ SendRawTransaction
  \/ WaitPoll
  \/ WaitTimeout
  \/ GetCode

Spec == Init /\ [][Next]_vars

\* The script is one thread that keeps running until it ends.
LiveSpec == Spec /\ WF_vars(Next)

(* ------------- two runs fed the same answers, but the balance --------- *)
\* The answer the second run gets: a returned balance is replaced by zero.
ZeroBalance(p, a) ==
  IF p = "get_balance" /\ a.exc = NoExc THEN Returns(0) ELSE a

\* The answer the second run gets: a valid key is supplied in the other
\* form, without the '0x' prefix when the first run has it and with it when
\* the first run has none.
OtherPrefix(p, a) ==
  IF p = "getenv_key" /\ a.present /\ ValidKey(a.value)
  THEN IF StartsWith0x(a.value)
       THEN EnvText(KeyBody(a.value))
       ELSE EnvText(<<"0", "x">> \o a.value)
  ELSE a

\* The answer the second run gets: the receipt with the other status.
OtherStatus(p, a) ==
  IF p = "wait_for_transaction_receipt" /\ a.exc = NoExc
  THEN Returns([a.val EXCEPT !.status = 1 - @])
  ELSE a

\* The answer the second run gets when the first run gets a, by what the
\* two runs differ in.
SecondAnswer(differ, p, a) ==
  CASE differ = "balance" -> ZeroBalance(p, a)
    [] differ = "prefix" -> OtherPrefix(p, a)
    [] differ = "status" -> OtherStatus(p, a)

\* One statement of both runs.
PairStepBy(p, differ) ==
  /\ pc = p
  /\ \E a \in Answers(p) :
       /\ Assign(Step(State, a))
       /\ shadow' = IF shadow.pc = p
                    THEN Step(shadow, SecondAnswer(differ, p, a))
                    ELSE shadow

PairStep(p) == PairStepBy(p, "balance")

PairConnect == PairStep("connect")

PairLoadKey == PairStep("getenv_key")

PairFromKey == PairStep("from_key")

PairGetBalance == PairStep("get_balance")

PairChainId == PairStep("chain_id")

PairBlockNumber == PairStep("block_number")

PairLoadArtifact == PairStep("load_artifact")

PairConstructor == PairStep("constructor")

PairGetTransactionCount == PairStep("get_transaction_count")

PairBuildTransaction == PairStep("build_transaction")

PairSignTransaction == PairStep("sign_transaction")

PairSendRawTransaction == PairStep("send_raw_transaction")

PairWaitForReceipt == PairStep("wait_for_transaction_receipt")

PairGetCode == PairStep("get_code")

PairNext ==
  \/ PairConnect
  \/ PairLoadKey
  \/ PairFromKey
  \/ PairGetBalance
  \/ PairChainId
  \/ PairBlockNumber
  \/ PairLoadArtifact
  \/ PairConstructor
  \/ PairGetTransactionCount
  \/ PairBuildTransaction
  \/ PairSignTransaction
  \/ PairSendRawTransaction
  \/ PairWaitForReceipt
  \/ PairGetCode

PairSpec == Init /\ [][PairNext]_vars

(* ------------------------ reading the run's log ----------------------- *)
Performed(op) == \E i \in DOMAIN calls : calls[i].op = op

Returned(op) == \E i \in DOMAIN calls : calls[i].op = op /\ calls[i].res = "ok"

Raised(op, e) == \E i \in DOMAIN calls : calls[i].op = op /\ calls[i].res = e.type

Count(op) == Cardinality({i \in DOMAIN calls : calls[i].op = op})

HasPrinted(tag) == \E i \in DOMAIN printed : printed[i].tag = tag

PrintedLine(tag) == printed[CHOOSE i \in DOMAIN printed : printed[i].tag = tag]

Terminal == pc \in {"done", "failed"}

\* What the caller of the script observes of a run s that has ended.
Outcome(s) == [exit_code |-> s.exit_code, err |-> s.err]

NetworkOps == {"is_connected", "get_balance", "chain_id", "block_number",
               "get_transaction_count", "send_raw_transaction",
               "wait_for_transaction_receipt", "get_code"}

NetworkCalls == SelectSeq(calls, LAMBDA c : c.op \in NetworkOps)

(* ------------------------------- claims ------------------------------- *)
\* C1 (as claimed): when a receipt was obtained and get_code returned empty
\* code, the run has failed: the contract is not reported as verified and
\* the run has not ended in success.
C1_EmptyCodeFails ==
  (Returned("wait_for_transaction_receipt") /\ Returned("get_code") /\ code = <<>>)
    => (pc = "failed" /\ exit_code = 1 /\ ~HasPrinted("verified")
        /\ ~HasPrinted("complete"))

\* C2 (as claimed): the address of the receipt is announced as the deployed
\* address only after get_code has returned non-empty code for it.
C2_AnnouncedOnlyAfterCodeCheck ==
  HasPrinted("deployed_to") => (Returned("get_code") /\ code # <<>>)

\* C3: the transaction is built at most once, signed at most once and sent
\* at most once, and nothing is sent after the receipt wait has ended.
C3_AtMostOnce ==
  /\ Count("build_transaction") <= 1
  /\ Count("sign_transaction") <= 1
  /\ Count("send_raw_transaction") <= 1
  /\ \A i, j \in DOMAIN calls :
       (calls[i].op = "wait_for_transaction_receipt"
          /\ calls[j].op = "send_raw_transaction") => j < i

\* C3 witness: the receipt wait timed out after the one send.
C3_Witness ==
  /\ pc = "failed"
  /\ Raised("wait_for_transaction_receipt", TimeExhausted)
  /\ Count("send_raw_transaction") = 1
  /\ Count("build_transaction") = 1
  /\ Count("sign_transaction") = 1

ConnectionCheckFalse ==
  \E i \in DOMAIN calls : calls[i] = [op |-> "is_connected", res |-> "false"]

\* C4: when the connection check returns false the run has failed with the
\* "cannot connect" report, and the check is the only operation of the run:
\* no key was read, no account derived, no query made, nothing built,
\* signed or sent.
C4_UnreachableFailsFirst ==
  ConnectionCheckFalse =>
    /\ pc = "failed"
    /\ Outcome(State) = [exit_code |-> 1, err |-> Str(CannotConnect)]
    /\ Len(calls) = 1
    /\ private_key = <<>>
    /\ account = <<>>
    /\ balance = Unset /\ chain_id = Unset /\ block_number = Unset
    /\ nonce = Unset
    /\ tx = NoTx /\ signed_tx = NoSigned /\ tx_hash = ""

\* C4 witness: the run that ended at the connection check.
C4_Witness == ConnectionCheckFalse /\ pc = "failed"

\* C5: when the send succeeded and the receipt wait timed out, the run has
\* failed with the timeout report: get_code was not called, no address was
\* reported, the transaction was sent once, and what the caller observes
\* differs from what it observes of any rejected send.
C5_TimeoutFails ==
  Raised("wait_for_transaction_receipt", TimeExhausted) =>
    /\ pc = "failed"
    /\ Outcome(State) = [exit_code |-> 1, err |-> Str(TimeExhausted)]
    /\ Returned("send_raw_transaction")
    /\ Count("send_raw_transaction") = 1
    /\ ~Performed("get_code")
    /\ ~HasPrinted("deployed_to")
    /\ contract_address = ""
    /\ \A e \in SendErrors :
         Outcome(State) # Outcome(Fail(InitState, "send_raw_transaction", e))

\* C5 witness: the deadline was reached and the run ended.
C5_Witness ==
  /\ Raised("wait_for_transaction_receipt", TimeExhausted)
  /\ elapsed = Timeout
  /\ Terminal

\* C6: every run reaches a terminal state (done or failed), given that the
\* script keeps executing: each call returns or raises and the receipt wait
\* ends with a receipt, an error or its deadline of 300.
C6_Terminates == <>(pc \in {"done", "failed"})

\* C6 witness: a run that waited until the deadline and then ended.
C6_Witness == pc = "failed" /\ elapsed = Timeout /\ exit_code = 1

\* C7: a step that failed is the last operation of the run: the run is
\* in the failed state with exit status 1, the failure report is the last
\* line printed and the completion line was never printed.
C7_FailureIsTerminal ==
  \A i \in DOMAIN calls :
    calls[i].res # "ok" =>
      /\ i = Len(calls)
      /\ pc = "failed"
      /\ exit_code = 1
      /\ printed[Len(printed)].tag = "failed"
      /\ ~HasPrinted("complete")
      /\ ~HasPrinted("verified")

\* C7 witness: the code read-back failed after every earlier step succeeded.
C7_Witness ==
  /\ pc = "failed"
  /\ calls[Len(calls)].op = "get_code"
  /\ calls[Len(calls)].res # "ok"
  /\ Len(calls) = 14

EncodingFailed ==
  \E i \in DOMAIN calls : calls[i].res = EncodingError.type

\* C8 (as claimed): a constructor-argument encoding error ends the run as
\* failed with no network call issued before it.
C8_EncodingErrorBeforeNetwork ==
  EncodingFailed =>
    /\ pc = "failed"
    /\ err = Str(EncodingError)
    /\ NetworkCalls = <<>>

\* C8 (amended): a constructor-argument encoding error ends the run as
\* failed (exit status 1, the encoding error's text) after the connection
\* check and the balance, chain id and block number queries were each made
\* once (and the transaction count query, when build_transaction raises
\* it), and before any signing, sending, receipt wait or code read-back.
C8_EncodingErrorAfterDiagnostics ==
  EncodingFailed =>
    /\ pc = "failed"
    /\ Outcome(State) = [exit_code |-> 1, err |-> Str(EncodingError)]
    /\ calls[Len(calls)].op \in {"constructor", "build_transaction"}
    /\ Len(NetworkCalls) \in {4, 5}
    /\ [i \in 1..4 |-> NetworkCalls[i]] =
         << [op |-> "is_connected", res |-> "ok"],
            [op |-> "get_balance", res |-> "ok"],
            [op |-> "chain_id", res |-> "ok"],
            [op |-> "block_number", res |-> "ok"] >>
    /\ Len(NetworkCalls) = 5 =>
         /\ NetworkCalls[5] = [op |-> "get_transaction_count", res |-> "ok"]
         /\ calls[Len(calls)].op = "build_transaction"
    /\ ~Performed("sign_transaction")
    /\ ~Performed("send_raw_transaction")
    /\ ~Performed("wait_for_transaction_receipt")
    /\ ~Performed("get_code")
    /\ signed_tx = NoSigned /\ tx = NoTx

\* C8 witness: build_transaction raised the encoding error.
C8_Witness ==
  /\ pc = "failed"
  /\ Raised("build_transaction", EncodingError)
  /\ err = Str(EncodingError)

\* The run without the balance it read and printed.
WithoutBalance(s) ==
  [s EXCEPT !.balance = Unset,
            !.printed = [i \in DOMAIN @ |->
                           IF @[i].tag = "balance"
                           THEN Line("balance", <<>>, Unset) ELSE @[i]]]

\* C9: a balance of zero is no failure: right after the query returned zero
\* the run is at the next statement, and the run whose balance query
\* returned zero is, in every state, equal to the run that got the same
\* answers with any other balance, except for the balance value itself.
C9_ZeroBalanceSameRun ==
  /\ WithoutBalance(State) = WithoutBalance(shadow)
  /\ (shadow.balance = 0 /\ shadow.calls[Len(shadow.calls)].op = "get_balance")
       => shadow.pc = "chain_id"

\* C9 witness: both runs ended in success, one with a positive balance and
\* one with balance zero.
C9_Witness ==
  /\ pc = "done" /\ shadow.pc = "done"
  /\ balance > 0 /\ shadow.balance = 0

\* DeploymentResult{contractAddress, deployedCodeSize} as the script
\* reports it (lines 83 and 91).
DeploymentResult ==
  [contractAddress |-> PrintedLine("deployed_to").text[1],
   deployedCodeSize |-> PrintedLine("verified").num]

\* C10: with a connected endpoint, a valid key, balance 0, chain id 32323,
\* an accepted send, a receipt and non-empty code returned by get_code, the
\* run ends in success (exit status 0, completion reported) and reports the
\* receipt's contract address and the length of the returned code.
C10_HappyPath ==
  ( /\ connected /\ Returned("from_key")
    /\ balance = 0 /\ chain_id = ReltimeChainId
    /\ Returned("send_raw_transaction")
    /\ Returned("wait_for_transaction_receipt")
    /\ Returned("get_code") /\ code # <<>> )
  => /\ pc = "done"
     /\ exit_code = 0
     /\ printed[Len(printed)].tag = "complete"
     /\ DeploymentResult = [contractAddress |-> receipt.contractAddress,
                             deployedCodeSize |-> Len(code)]
     /\ contract_address = receipt.contractAddress
     /\ receipt.contractAddress \in {r.contractAddress : r \in Receipts}
     /\ DeploymentResult.deployedCodeSize > 0

\* C10 witness: the happy path has ended.
C10_Witness ==
  /\ pc = "done" /\ balance = 0 /\ chain_id = ReltimeChainId
  /\ Len(code) > 0 /\ HasPrinted("complete")

\* The position of the last entry of the log for op (0 when there is none).
LastCall(op) ==
  IF Performed(op)
  THEN CHOOSE i \in DOMAIN calls :
         calls[i].op = op /\ \A j \in DOMAIN calls : calls[j].op = op => j <= i
  ELSE 0

\* C11: the nonce of the built transaction is the value returned by the
\* transaction count query of this run, and that query is made once, after
\* the account was derived and immediately before build_transaction.
C11_NonceFromQueryAtBuild ==
  /\ [][(pc = "get_transaction_count" /\ pc' = "build_transaction")
          => \E a \in Answers("get_transaction_count") :
               /\ a.exc = NoExc
               /\ nonce' = a.val
               /\ State' = NonceStep(State, a)]_vars
  /\ [](tx # NoTx =>
          /\ tx.nonce = nonce
          /\ tx.from = account
          /\ Count("get_transaction_count") = 1
          /\ Count("build_transaction") = 1
          /\ LastCall("build_transaction") = LastCall("get_transaction_count") + 1
          /\ 0 < LastCall("from_key")
          /\ LastCall("from_key") < LastCall("get_transaction_count")
          /\ calls[LastCall("get_transaction_count")].res = "ok")

\* C11 witness: a transaction built with a nonce other than the default.
C11_Witness == tx # NoTx /\ tx.nonce = MaxNonce /\ nonce = MaxNonce

\* C12: building with gasPrice = 0 is accepted: the build fails only when
\* the encoder or the node raises, and the transaction built with
\* gasPrice = 0 is the one built with any gasPrice > 0 with only the
\* gasPrice field changed (same from, nonce, gas limit and data).
C12_ZeroGasPriceAccepted ==
  [][pc = "build_transaction" =>
       /\ BuildStepWith(State, NoAnswer, 0).pc = "sign_transaction"
       /\ pc' = "failed" =>
            calls'[Len(calls')].res \in {e.type : e \in {EncodingError} \cup RpcErrors}
       /\ pc' = "sign_transaction" =>
            /\ tx'.gasPrice = 0
            /\ tx'.gas = GasLimit
            /\ \A g \in 1..MaxGasPrice :
                 LET other == BuildStepWith(State, NoAnswer, g)
                 IN  /\ other.tx.gasPrice = g
                     /\ [other EXCEPT !.tx.gasPrice = 0] = State'
                     /\ other.tx.from = tx'.from
                     /\ other.tx.nonce = tx'.nonce
                     /\ other.tx.gas = tx'.gas
                     /\ other.tx.data = tx'.data]_vars

\* C12 witness: the transaction was built with gasPrice 0 and the run went
\* on to signing.
C12_Witness ==
  /\ pc = "sign_transaction"
  /\ Returned("build_transaction")
  /\ tx.gasPrice = 0 /\ tx.gas = GasLimit /\ tx.nonce >= 0

(* -------- two runs fed the same answers, but the form of the key ------ *)
PrefixConnect == PairStepBy("connect", "prefix")

PrefixLoadKey == PairStepBy("getenv_key", "prefix")

PrefixFromKey == PairStepBy("from_key", "prefix")

PrefixGetBalance == PairStepBy("get_balance", "prefix")

PrefixChainId == PairStepBy("chain_id", "prefix")

PrefixBlockNumber == PairStepBy("block_number", "prefix")

PrefixLoadArtifact == PairStepBy("load_artifact", "prefix")

PrefixConstructor == PairStepBy("constructor", "prefix")

PrefixGetTransactionCount == PairStepBy("get_transaction_count", "prefix")

PrefixBuildTransaction == PairStepBy("build_transaction", "prefix")

PrefixSignTransaction == PairStepBy("sign_transaction", "prefix")

PrefixSendRawTransaction == PairStepBy("send_raw_transaction", "prefix")

PrefixWaitForReceipt == PairStepBy("wait_for_transaction_receipt", "prefix")

PrefixGetCode == PairStepBy("get_code", "prefix")

PrefixNext ==
  \/ PrefixConnect
  \/ PrefixLoadKey
  \/ PrefixFromKey
  \/ PrefixGetBalance
  \/ PrefixChainId
  \/ PrefixBlockNumber
  \/ PrefixLoadArtifact
  \/ PrefixConstructor
  \/ PrefixGetTransactionCount
  \/ PrefixBuildTransaction
  \/ PrefixSignTransaction
  \/ PrefixSendRawTransaction
  \/ PrefixWaitForReceipt
  \/ PrefixGetCode

PrefixSpec == Init /\ [][PrefixNext]_vars

\* C13: a valid key supplied with the '0x' prefix and the same key supplied
\* without it give the same normalized key and the same account address,
\* hence the same run; a normalized key is left unchanged by normalizing
\* it again.
C13_PrefixIrrelevant ==
  /\ State = shadow
  /\ private_key # <<>> =>
       /\ StartsWith0x(private_key)
       /\ Normalize(private_key) = private_key
  /\ account # <<>> =>
       /\ account = Address(private_key)
       /\ account = Address(KeyBody(private_key))
       /\ shadow.account = account

\* C13 witness: both runs derived the account of the key "0b", which one of
\* them got with the prefix and the other without.
C13_Witness ==
  /\ pc = "get_balance" /\ shadow.pc = "get_balance"
  /\ private_key = <<"0", "x", "0", "b">>
  /\ shadow.private_key = private_key
  /\ account = Address(<<"0", "b">>)

\* The kind of failure that happened in the run, read from its log.
FailureKinds == {"NetworkUnreachable", "InvalidKeyError", "EncodingError",
                 "SubmissionRejected", "ConfirmationTimeout",
                 "DeploymentVerificationFailed"}

Happened(kind) ==
  CASE kind = "NetworkUnreachable" -> ConnectionCheckFalse
    [] kind = "InvalidKeyError" -> Raised("from_key", InvalidKey)
    [] kind = "EncodingError" -> EncodingFailed
    [] kind = "SubmissionRejected" ->
         Performed("send_raw_transaction") /\ ~Returned("send_raw_transaction")
    [] kind = "ConfirmationTimeout" ->
         Raised("wait_for_transaction_receipt", TimeExhausted)
    [] kind = "DeploymentVerificationFailed" ->
         /\ Returned("wait_for_transaction_receipt")
         /\ Returned("get_code")
         /\ code = <<>>

\* The outcomes the except handler gives to the exceptions of a kind.
HandlerOutcomes(kind) ==
  LET of(E) == {Outcome(Except(InitState, e)) : e \in E}
  IN  CASE kind = "NetworkUnreachable" -> of({CannotConnect})
        [] kind = "InvalidKeyError" -> of({InvalidKey})
        [] kind = "EncodingError" -> of({EncodingError})
        [] kind = "SubmissionRejected" -> of(SendErrors)
        [] kind = "ConfirmationTimeout" -> of({TimeExhausted})
        [] kind = "DeploymentVerificationFailed" -> {}

\* C14 (as claimed): a run in which one of the six kinds of failure happened
\* ends with a failure outcome that identifies the kind: it is a failure
\* (exit status 1), it differs from the outcome of every other kind, and
\* the outcome of an encoding error differs from that of a network error
\* raised by the same build step.
C14_FailureKindIdentified ==
  \A kind \in FailureKinds :
    (Terminal /\ Happened(kind)) =>
      /\ pc = "failed"
      /\ exit_code = 1
      /\ \A other \in FailureKinds \ {kind} :
           Outcome(State) \notin HandlerOutcomes(other)
      /\ kind = "EncodingError" =>
           \A e \in RpcErrors :
             Outcome(State) # Outcome(Fail(InitState, "build_transaction", e))

\* The statements of the try block that can raise, in program order.
StatementOrder ==
  << "is_connected", "getenv_key", "from_key", "get_balance", "chain_id",
     "block_number", "load_artifact", "constructor", "get_transaction_count",
     "build_transaction", "sign_transaction", "send_raw_transaction",
     "wait_for_transaction_receipt", "get_code" >>

PhaseOrder ==
  << "Disconnected", "Connected", "AccountVerified", "Built", "Signed",
     "Submitted", "Confirmed", "Verified" >>

\* The state of the deployment the run is in when it is at statement p.
Phase(p) ==
  CASE p = "connect" -> "Disconnected"
    [] p \in {"getenv_key", "from_key", "get_balance", "chain_id"} -> "Connected"
    [] p \in {"block_number", "load_artifact", "constructor",
              "get_transaction_count", "build_transaction"} -> "AccountVerified"
    [] p = "sign_transaction" -> "Built"
    [] p = "send_raw_transaction" -> "Signed"
    [] p = "wait_for_transaction_receipt" -> "Submitted"
    [] p = "get_code" -> "Confirmed"
    [] p = "done" -> "Verified"
    [] p = "failed" -> "Failed"

Rank(phase) == CHOOSE i \in DOMAIN PhaseOrder : PhaseOrder[i] = phase

\* The operations performed are a prefix of the program order, each started
\* only after the one before it returned.
LogInOrder ==
  /\ Len(calls) <= Len(StatementOrder)
  /\ \A i \in DOMAIN calls :
       /\ calls[i].op = StatementOrder[i]
       /\ i < Len(calls) => calls[i].res = "ok"
  /\ pc = "done" => Len(calls) = Len(StatementOrder)
  /\ pc \notin {"done", "failed", "connect"} => Rank(Phase(pc)) <= Len(calls) + 1

\* One step of the run moves to the next state of the deployment, stays in
\* the current one, or fails; nothing follows Verified or Failed.
PhaseStep ==
  /\ pc \notin {"done", "failed"}
  /\ \/ pc' = "failed"
     \/ Phase(pc') = Phase(pc)
     \/ Rank(Phase(pc')) = Rank(Phase(pc)) + 1

\* C15: the states are visited in the order Disconnected, Connected,
\* AccountVerified, Built, Signed, Submitted, Confirmed, Verified, one after
\* the other, with Failed possible after any of them and nothing after
\* Failed or Verified; the operations performed are a prefix of the program
\* order, each started only after the one before it returned.
C15_StatesInOrder == [][PhaseStep]_vars /\ []LogInOrder

\* C15 witness: Verified was reached after all fourteen operations.
C15_Witness ==
  /\ pc = "done" /\ Phase(pc) = "Verified"
  /\ Len(calls) = Len(StatementOrder)

SendRejected ==
  Performed("send_raw_transaction") /\ ~Returned("send_raw_transaction")

\* C16: when send_raw_transaction raises, the run has failed (exit status
\* 1) with the text of the exception the node's answer raised; the send is
\* the last operation: no receipt wait, no code read-back, no second send.
C16_RejectedSendFails ==
  SendRejected =>
    /\ pc = "failed"
    /\ exit_code = 1
    /\ \E e \in SendErrors :
         /\ calls[Len(calls)] = [op |-> "send_raw_transaction", res |-> e.type]
         /\ err = Str(e)
         /\ printed[Len(printed)] = Line("failed", <<Str(e)>>, Unset)
    /\ Count("send_raw_transaction") = 1
    /\ ~Performed("wait_for_transaction_receipt")
    /\ ~Performed("get_code")
    /\ tx_hash = "" /\ receipt = NoReceipt /\ contract_address = ""

\* C16 witness: the node refused the transaction for its nonce.
C16_Witness ==
  /\ pc = "failed"
  /\ Raised("send_raw_transaction", NonceTooLow)
  /\ err = Str(NonceTooLow)

EmptyKeyInputs == {EnvUnset, EnvText(<<>>)}

\* C17: with an absent or empty key the key check raises right after the
\* successful connection check: the run has failed with the "not set"
\* report, and no account was derived, no query made and no transaction
\* built, signed or sent.
C17_MissingKeyFailsEarly ==
  /\ pc = "getenv_key" =>
       \A env \in EmptyKeyInputs :
         LET s == LoadKeyStep(State, env)
         IN  /\ s.pc = "failed"
             /\ s.calls = << [op |-> "is_connected", res |-> "ok"],
                             [op |-> "getenv_key", res |-> KeyNotSet.type] >>
  /\ Raised("getenv_key", KeyNotSet) =>
       /\ pc = "failed"
       /\ Outcome(State) = [exit_code |-> 1, err |-> Str(KeyNotSet)]
       /\ calls = << [op |-> "is_connected", res |-> "ok"],
                     [op |-> "getenv_key", res |-> KeyNotSet.type] >>
       /\ private_key = <<>> /\ account = <<>>
       /\ balance = Unset /\ chain_id = Unset /\ block_number = Unset
       /\ nonce = Unset
       /\ tx = NoTx /\ signed_tx = NoSigned /\ tx_hash = ""

\* C17 witness: the run ended at the key check.
C17_Witness ==
  /\ pc = "failed"
  /\ connected
  /\ Raised("getenv_key", KeyNotSet)
  /\ err = Str(KeyNotSet)

DiagnosticOps == {"get_balance", "chain_id", "block_number"}

\* C18: when the balance, chain id or block number query raises, the run
\* has failed (exit status 1, the text of the exception) with that query as
\* its last operation and no transaction built, signed or sent.
C18_DiagnosticFailureFails ==
  \A op \in DiagnosticOps :
    (Performed(op) /\ ~Returned(op)) =>
      /\ pc = "failed"
      /\ exit_code = 1
      /\ calls[Len(calls)].op = op
      /\ \E e \in RpcErrors : calls[Len(calls)].res = e.type /\ err = Str(e)
      /\ ~Performed("build_transaction")
      /\ ~Performed("sign_transaction")
      /\ ~Performed("send_raw_transaction")
      /\ tx = NoTx /\ signed_tx = NoSigned /\ tx_hash = ""

\* C18 witness: the chain id query failed after the balance was read.
C18_Witness ==
  /\ pc = "failed"
  /\ balance >= 0
  /\ Raised("chain_id", TransportError)
  /\ tx = NoTx

(* ----- two runs fed the same answers, but the status of the receipt --- *)
StatusConnect == PairStepBy("connect", "status")

StatusLoadKey == PairStepBy("getenv_key", "status")

StatusFromKey == PairStepBy("from_key", "status")

StatusGetBalance == PairStepBy("get_balance", "status")

StatusChainId == PairStepBy("chain_id", "status")

StatusBlockNumber == PairStepBy("block_number", "status")

StatusLoadArtifact == PairStepBy("load_artifact", "status")

StatusConstructor == PairStepBy("constructor", "status")

StatusGetTransactionCount == PairStepBy("get_transaction_count", "status")

StatusBuildTransaction == PairStepBy("build_transaction", "status")

StatusSignTransaction == PairStepBy("sign_transaction", "status")

StatusSendRawTransaction == PairStepBy("send_raw_transaction", "status")

StatusWaitForReceipt == PairStepBy("wait_for_transaction_receipt", "status")

StatusGetCode == PairStepBy("get_code", "status")

StatusNext ==
  \/ StatusConnect
  \/ StatusLoadKey
  \/ StatusFromKey
  \/ StatusGetBalance
  \/ StatusChainId
  \/ StatusBlockNumber
  \/ StatusLoadArtifact
  \/ StatusConstructor
  \/ StatusGetTransactionCount
  \/ StatusBuildTransaction
  \/ StatusSignTransaction
  \/ StatusSendRawTransaction
  \/ StatusWaitForReceipt
  \/ StatusGetCode

StatusSpec == Init /\ [][StatusNext]_vars

\* The run without the status field of its receipt.
WithoutStatus(s) == [s EXCEPT !.receipt.status = Unset]

\* C19: the run does not depend on the status of the receipt: the run whose
\* receipt reports success and the run whose receipt reports failure are,
\* in every state, equal in everything but that field: both read the
\* contract address, announce it, call get_code and end the same way.
C19_StatusIgnored ==
  /\ WithoutStatus(State) = WithoutStatus(shadow)
  /\ receipt # NoReceipt =>
       /\ shadow.receipt.status = 1 - receipt.status
       /\ contract_address = receipt.contractAddress
       /\ HasPrinted("deployed_to")
       /\ pc \in {"get_code", "done", "failed"}
       /\ pc = "failed" => calls[Len(calls)].op = "get_code"

\* C19 witness: both runs ended in success, one with a receipt of status 0
\* and one with a receipt of status 1.
C19_Witness ==
  /\ pc = "done" /\ shadow.pc = "done"
  /\ receipt.status = 0 /\ shadow.receipt.status = 1
  /\ Returned("get_code")

====
